---------------------------- MODULE Spec2Model ----------------------------
(***************************************************************************)
(* A model of the in-page test harness of galata                           *)
(* (packages/galata/src/inpage/index.ts, class JLabTestInpage).            *)
(*                                                                         *)
(* The harness is single-threaded JavaScript: every action below is one    *)
(* run-to-completion step of the event loop (a call up to its first        *)
(* suspension, a timer callback, a promise continuation) or one step of    *)
(* the host application (the DOM changing, a plugin activation finishing). *)
(* Each part of the harness has its own specification; the variables of    *)
(* the other parts stay at their idle values.                              *)
(***************************************************************************)
EXTENDS Integers, Sequences, FiniteSets, TLC

VARIABLES
    \* ---- plugin resolver (getPlugin) ----
    registered,        \* app.hasPlugin(id), per plugin id
    pluginMapExposed,  \* whether app._pluginMap is there (truthy)
    pluginData,        \* app._pluginMap[id]: [activated, service]
    hostPromise,       \* per plugin id: state of the host's activation promise
    calls,             \* per getPlugin call: its promise and what it did
    \* ---- DOM condition waiter (waitForSelector, waitForXPath) ----
    dom,               \* per node: where it matches the condition, if it does
    waiter,            \* the waitFor... call: its arguments, timer and promise
    \* ---- scroll prediction (notebookWillScroll) ----
    viewport,          \* notebook.node.getBoundingClientRect(): [top, height]
    scrollCall,        \* the notebookWillScroll call: its arguments and result
    \* ---- notebook document (addNotebookCell, setNotebookCell) ----
    cells,             \* nb.model.cells: the cells, each [cell_type, source]
    activeCellIndex,   \* notebook.activeCellIndex (0-based, -1 when there is none)
    compoundDepth,     \* compound operations begun and not ended
    lastOp,            \* the last harness operation on the document, and its effects
    \* ---- cell execution synchronizer (waitForCellRun) ----
    cell,              \* the cell argument: [cell_type, source]
    timeout,           \* the timeout argument, in ms
    prompt,            \* text of the cell's input prompt in the DOM
    output,            \* the cell's first output node in the DOM, if any
    ready,             \* whether the promise cell.ready is fulfilled
    rendered,          \* cell.rendered
    sync,              \* the call: where it is, its timers, numTries, its promise
    elapsed,           \* ms of timer time since the call
    hist,              \* what the call has done so far (history)
    \* ---- sequential run orchestrator (runActiveNotebookCellByCell) ----
    callback,          \* the callback argument: whether given, and its members
    run,               \* the call: where it is and its local variables
    selected,          \* indices of the selected cells
    scrollTop,         \* notebook.node.scrollTop
    events,            \* what the call has done so far, in order (history)
    \* ---- notebook run waiter (waitForNotebookRun) ----
    nbWait,            \* the call: where it is, and numCells
    promises,          \* the promises of line 202, one per waitForCellRun started
    \* ---- launch waiter (waitForLaunch) ----
    launch,            \* the call: where it is, its path, its promise, its handler
    routedLog          \* the paths router.routed has emitted so far, in order

pluginVars == <<registered, pluginMapExposed, pluginData, hostPromise, calls>>

waitVars == <<dom, waiter>>

scrollVars == <<viewport, scrollCall>>

nbVars == <<cells, activeCellIndex, compoundDepth, lastOp>>

cellVars == <<cell, timeout, prompt, output, ready, rendered, sync, elapsed, hist>>

runVars == <<callback, run, selected, scrollTop, events>>

nbWaitVars == <<nbWait, promises>>

launchVars == <<launch, routedLog>>

vars == <<pluginVars, waitVars, scrollVars, nbVars, cellVars, runVars, nbWaitVars,
          launchVars>>

otherThanPlugin ==
    <<waitVars, scrollVars, nbVars, cellVars, runVars, nbWaitVars, launchVars>>
otherThanWait ==
    <<pluginVars, scrollVars, nbVars, cellVars, runVars, nbWaitVars, launchVars>>
otherThanScroll ==
    <<pluginVars, waitVars, nbVars, cellVars, runVars, nbWaitVars, launchVars>>
otherThanNb ==
    <<pluginVars, waitVars, scrollVars, cellVars, runVars, nbWaitVars, launchVars>>
otherThanCell ==
    <<pluginVars, waitVars, scrollVars, nbVars, runVars, nbWaitVars, launchVars>>
otherThanRun == <<pluginVars, waitVars, scrollCall, nbWaitVars, launchVars>>
otherThanNbWait ==
    <<pluginVars, waitVars, scrollVars, cellVars, callback, run, scrollTop, events,
      launchVars>>
otherThanLaunch ==
    <<pluginVars, waitVars, scrollVars, nbVars, cellVars, runVars, nbWaitVars>>

(***************************************************************************)
(* Bounds of the model.                                                    *)
(***************************************************************************)
MaxCalls == 2
MaxCells == 2
MaxPolls == 13
MaxRouted == 3

(***************************************************************************)
(* Plugin resolver: getPlugin (index.ts lines 36-58).                      *)
(***************************************************************************)
PluginIds == {"router", "docmanager", "other"}
NoService == [of |-> "null"]
ServiceOf(id) == [of |-> id]
Responses == {"undefined", "payload"}
CallIds == 1..MaxCalls

NoCall ==
    [id |-> "none", state |-> "unused", value |-> NoService, wasActive |-> FALSE,
     activations |-> 0, awaited |-> FALSE, logged |-> FALSE, response |-> "none"]

\* The executor's decision, lines 39-56: what one getPlugin call does.
\*   "hang"     hasPlugin is false: nothing is done, the promise stays pending
\*   "throw"    plugin is undefined, so plugin.activated throws; caught, logged
\*   "resolve"  plugin.activated: resolve(plugin.service)
\*   "activate" app.activatePlugin(pluginId).then(... resolve(plugin.service))
GetPluginEagerBranch(hasPlugin, mapExposed, activated) ==
    IF ~hasPlugin THEN "hang"
    ELSE IF ~mapExposed THEN "throw"
    ELSE "resolve"

GetPluginSettlingBranch(hasPlugin, mapExposed, activated) ==
    IF ~hasPlugin THEN "resolve"
    ELSE IF ~mapExposed THEN "resolve"
    ELSE IF activated THEN "resolve"
    ELSE "activate"

GetPluginBranch(hasPlugin, mapExposed, activated) ==
    IF ~hasPlugin THEN "hang"
    ELSE IF ~mapExposed THEN "throw"
    ELSE IF activated THEN "resolve"
    ELSE "activate"

\* getPlugin(pluginId), up to the end of the promise executor.
GetPlugin(c, id) ==
    /\ calls[c].state = "unused"
    /\ LET branch == GetPluginBranch(registered[id], pluginMapExposed,
                                     pluginData[id].activated)
       IN  /\ calls' = [calls EXCEPT ![c] =
                 [id |-> id,
                  state |-> IF branch = "resolve" THEN "resolved" ELSE "pending",
                  value |-> IF branch = "resolve" THEN pluginData[id].service
                                                  ELSE NoService,
                  wasActive |-> pluginData[id].activated,
                  activations |-> IF branch = "activate" THEN 1 ELSE 0,
                  awaited |-> FALSE,
                  logged |-> (branch = "throw"),
                  response |-> "none"]]
           \* app.activatePlugin starts the host's activation unless one is
           \* already in flight for this plugin
           /\ hostPromise' = IF branch = "activate" /\ hostPromise[id] = "none"
                             THEN [hostPromise EXCEPT ![id] = "pending"]
                             ELSE hostPromise
    /\ UNCHANGED <<registered, pluginMapExposed, pluginData, otherThanPlugin>>

\* The host finishes activating a plugin: the plugin data gets its service
\* and the promise app.activatePlugin returned is fulfilled (line 49).
ActivationCompletes(id) ==
    /\ hostPromise[id] = "pending"
    /\ hostPromise' = [hostPromise EXCEPT ![id] = "fulfilled"]
    /\ pluginData' = [pluginData EXCEPT ![id] =
                         [activated |-> TRUE, service |-> ServiceOf(id)]]
    /\ UNCHANGED <<registered, pluginMapExposed, calls, otherThanPlugin>>

\* The host's activation fails: the promise is rejected; the .then of line 49
\* has no rejection handler, so nothing in getPlugin runs.
ActivationFails(id) ==
    /\ hostPromise[id] = "pending"
    /\ hostPromise' = [hostPromise EXCEPT ![id] = "rejected"]
    /\ UNCHANGED <<registered, pluginMapExposed, pluginData, calls, otherThanPlugin>>

\* The .then callback of lines 49-51: response is ignored.
ActivationThen(c, response) ==
    /\ calls[c].state = "pending"
    /\ calls[c].activations = 1
    /\ hostPromise[calls[c].id] = "fulfilled"
    /\ calls' = [calls EXCEPT ![c].state = "resolved",
                              ![c].value = pluginData[calls[c].id].service,
                              ![c].awaited = TRUE,
                              ![c].response = response]
    /\ UNCHANGED <<registered, pluginMapExposed, pluginData, hostPromise, otherThanPlugin>>

PluginIdle ==
    /\ registered = [p \in PluginIds |-> FALSE]
    /\ pluginMapExposed = FALSE
    /\ pluginData = [p \in PluginIds |-> [activated |-> FALSE, service |-> NoService]]
    /\ hostPromise = [p \in PluginIds |-> "none"]
    /\ calls = [c \in CallIds |-> NoCall]

PluginInit ==
    /\ registered \in [PluginIds -> BOOLEAN]
    /\ pluginMapExposed \in BOOLEAN
    /\ \E active \in SUBSET {p \in PluginIds : registered[p]} :
          pluginData = [p \in PluginIds |->
              IF p \in active
              THEN [activated |-> TRUE, service |-> ServiceOf(p)]
              ELSE [activated |-> FALSE, service |-> NoService]]
    /\ hostPromise = [p \in PluginIds |-> "none"]
    /\ calls = [c \in CallIds |-> NoCall]

PluginNext ==
    \/ \E c \in CallIds, id \in PluginIds : GetPlugin(c, id)
    \/ \E id \in PluginIds : ActivationCompletes(id)
    \/ \E id \in PluginIds : ActivationFails(id)
    \/ \E c \in CallIds, r \in Responses : ActivationThen(c, r)

(***************************************************************************)
(* DOM condition waiter: waitForSelector (lines 80-98) and waitForXPath    *)
(* (lines 100-119).  The DOM is a few nodes in document order; each either *)
(* does not match the condition, or matches it inside the subtree of the   *)
(* node argument, or matches it elsewhere in the document.                 *)
(***************************************************************************)
Null == "null"
Nodes == {"n1", "n2"}
DocOrder == <<"n1", "n2">>
Places == {"nomatch", "inside", "outside"}
Flavors == {"selector", "xpath"}
\* the options argument: absent, or an object whose hidden is true, false or unset
OptionValues == {"undefined", "hidden", "nothidden", "unset"}

\* const waitForHidden = options && options.hidden  (lines 81, 101)
WaitForHidden(options) == options = "hidden"

\* const parent = node || document: the matches the query can see
Scope(nodeGiven) ==
    {n \in Nodes : dom[n] = "inside" \/ (~nodeGiven /\ dom[n] = "outside")}

\* parent.querySelector(selector): the first match in document order (line 86)
QuerySelector(scope) ==
    IF scope = {} THEN Null
    ELSE DocOrder[CHOOSE i \in 1..Len(DocOrder) :
                     /\ DocOrder[i] \in scope
                     /\ \A j \in 1..(i-1) : DocOrder[j] \notin scope]

\* iterator.iterateNext() of an UNORDERED_NODE_ITERATOR_TYPE result: any of
\* the matches (lines 106-107)
XPathFirst(scope) == IF scope = {} THEN {Null} ELSE scope

Founds(flavor, scope) ==
    IF flavor = "selector" THEN {QuerySelector(scope)} ELSE XPathFirst(scope)

\* One interval callback, lines 87-95 and 108-116: whether it clears the timer
\* and resolves, and with what.
WaitTickIgnoringHidden(waitForHidden, found) ==
    IF found # Null THEN [resolve |-> TRUE, value |-> IF waitForHidden THEN Null ELSE found]
    ELSE [resolve |-> FALSE, value |-> Null]

WaitTick(waitForHidden, found) ==
    IF waitForHidden
    THEN IF found = Null THEN [resolve |-> TRUE, value |-> Null]
                         ELSE [resolve |-> FALSE, value |-> Null]
    ELSE IF found # Null THEN [resolve |-> TRUE, value |-> found]
                         ELSE [resolve |-> FALSE, value |-> Null]

NoWaiter ==
    [flavor |-> "none", options |-> "undefined", nodeGiven |-> FALSE,
     state |-> "unused", timer |-> FALSE, value |-> Null,
     ticks |-> "none", lastFound |-> Null]

\* waitForSelector / waitForXPath: setInterval(..., 200); nothing is queried yet.
WaitFor(flavor, options, nodeGiven) ==
    /\ waiter.state = "unused"
    /\ waiter' = [NoWaiter EXCEPT !.flavor = flavor, !.options = options,
                                  !.nodeGiven = nodeGiven,
                                  !.state = "pending", !.timer = TRUE]
    /\ UNCHANGED <<dom, otherThanWait>>

\* The interval callback of the waiter.
WaitIntervalFires ==
    /\ waiter.timer
    /\ \E found \in Founds(waiter.flavor, Scope(waiter.nodeGiven)) :
          LET t == WaitTick(WaitForHidden(waiter.options), found)
          IN  waiter' = [waiter EXCEPT
                  !.state = IF t.resolve THEN "resolved" ELSE @,
                  !.timer = ~t.resolve,
                  !.value = t.value,
                  !.ticks = IF @ = "none" THEN "one" ELSE "many",
                  !.lastFound = found]
    /\ UNCHANGED <<dom, otherThanWait>>

\* The host application changes the document.
DomChange(n, place) ==
    /\ dom[n] # place
    /\ dom' = [dom EXCEPT ![n] = place]
    /\ UNCHANGED <<waiter, otherThanWait>>

\* A resolved call is forgotten, so that another can be made.
WaitReturn ==
    /\ waiter.state = "resolved"
    /\ waiter' = NoWaiter
    /\ UNCHANGED <<dom, otherThanWait>>

WaitIdle ==
    /\ dom = [n \in Nodes |-> "nomatch"]
    /\ waiter = NoWaiter

WaitInit ==
    /\ dom \in [Nodes -> Places]
    /\ waiter = NoWaiter

WaitNext ==
    \/ \E f \in Flavors, o \in OptionValues, g \in BOOLEAN : WaitFor(f, o, g)
    \/ WaitIntervalFires
    \/ \E n \in Nodes, place \in Places : DomChange(n, place)
    \/ WaitReturn

(***************************************************************************)
(* Scroll prediction: notebookWillScroll (lines 297-302).  Coordinates are *)
(* whole pixels.  The code compares |position - top - height/2| with       *)
(* height * threshold / 100; both sides are kept exact here by carrying    *)
(* twice the distance and comparing after multiplying through by 200.      *)
(***************************************************************************)
DefaultThreshold == 25
scrollThreshold == 45
Tops == {0, 100}
Heights == {0, 1, 400}
Positions == {-50, 0, 119, 120, 121, 300, 310, 479, 480, 481, 700}
Thresholds == {0, DefaultThreshold, scrollThreshold, 100}

Abs(x) == IF x < 0 THEN -x ELSE x

\* const delta = position - ar.top - ar.height / 2   (line 300), doubled
TwiceDelta(ar, position) == 2 * position - 2 * ar.top - ar.height

\* return Math.abs(delta) > (ar.height * threshold) / 100   (line 301)
NotebookWillScrollNonStrict(ar, position, threshold) ==
    100 * Abs(TwiceDelta(ar, position)) >= 2 * (ar.height * threshold)

NotebookWillScroll(ar, position, threshold) ==
    100 * Abs(TwiceDelta(ar, position)) > 2 * (ar.height * threshold)

NoScrollCall == [called |-> FALSE, position |-> 0, threshold |-> DefaultThreshold,
                 result |-> FALSE]

\* notebookWillScroll(notebook, position, threshold)
NotebookWillScrollCall(position, threshold) ==
    /\ ~scrollCall.called
    /\ scrollCall' = [called |-> TRUE, position |-> position,
                      threshold |-> threshold,
                      result |-> NotebookWillScroll(viewport, position, threshold)]
    /\ UNCHANGED <<viewport, otherThanScroll>>

\* The caller takes the result; the notebook may have been laid out anew.
ScrollReturn(top, height) ==
    /\ scrollCall.called
    /\ scrollCall' = NoScrollCall
    /\ viewport' = [top |-> top, height |-> height]
    /\ UNCHANGED otherThanScroll

ScrollIdle ==
    /\ viewport = [top |-> 0, height |-> 0]
    /\ scrollCall = NoScrollCall

ScrollInit ==
    /\ viewport \in [top : Tops, height : Heights]
    /\ scrollCall = NoScrollCall

ScrollNext ==
    \/ \E position \in Positions, threshold \in Thresholds :
          NotebookWillScrollCall(position, threshold)
    \/ \E top \in Tops, height \in Heights : ScrollReturn(top, height)

(***************************************************************************)
(* Notebook document: addNotebookCell (lines 130-150) and setNotebookCell  *)
(* (lines 152-173).  A source text is a sequence of characters; indices    *)
(* are 0-based as in the code, positions of the sequence 1-based.          *)
(***************************************************************************)
CellTypes == {"code", "markdown", "raw"}
Whitespace == {" ", "\n"}
Sources == {<<>>, <<" ">>, <<"\n", " ">>, <<"x">>, <<" ", "x", "\n">>}
DocSources == {<<>>, <<"x">>}
NewCell(cellType, source) == [cell_type |-> cellType, source |-> source]
Documents ==
    UNION {[1..n -> [cell_type : CellTypes, source : DocSources]] : n \in 0..MaxCells}

\* if (cellIndex < 0 || cellIndex >= numCells)   (line 157)
IndexOutOfRangeOffByOne(cellIndex, numCells) ==
    cellIndex < 0 \/ cellIndex > numCells

IndexOutOfRange(cellIndex, numCells) ==
    cellIndex < 0 \/ cellIndex >= numCells

\* nb.model.cells.set(index, cell): the list throws on an index outside it
CanSet(list, index) == index >= 0 /\ index < Len(list)
CellsSet(list, index, newCell) == [list EXCEPT ![index + 1] = newCell]

\* cells.insert(index, cell)
CellsInsert(list, index, newCell) ==
    SubSeq(list, 1, index) \o <<newCell>> \o SubSeq(list, index + 1, Len(list))

NoOp ==
    [op |-> "none", index |-> 0, numCells |-> 0, returned |-> "none",
     began |-> FALSE, replaced |-> FALSE, updated |-> FALSE, before |-> <<>>,
     made |-> [cell_type |-> "none", source |-> <<>>]]

\* setNotebookCell(cellIndex, cellType, source)
SetNotebookCell(cellIndex, cellType, source) ==
    LET numCells == Len(cells)
        op == [NoOp EXCEPT !.op = "set", !.index = cellIndex,
                           !.numCells = numCells, !.before = cells]
    IN  /\ compoundDepth = 0
        /\ IF IndexOutOfRange(cellIndex, numCells)
           THEN /\ lastOp' = [op EXCEPT !.returned = "false"]
                /\ UNCHANGED <<cells, compoundDepth>>
           ELSE IF CanSet(cells, cellIndex)
           THEN /\ cells' = CellsSet(cells, cellIndex, NewCell(cellType, source))
                /\ lastOp' = [op EXCEPT !.returned = "true", !.began = TRUE,
                                        !.replaced = TRUE, !.updated = TRUE]
                /\ UNCHANGED compoundDepth
           ELSE \* cells.set throws: the compound operation stays open
                /\ compoundDepth' = compoundDepth + 1
                /\ lastOp' = [op EXCEPT !.returned = "threw", !.began = TRUE]
                /\ UNCHANGED cells
        /\ UNCHANGED <<activeCellIndex, otherThanNb>>

\* NotebookActions.insertBelow(nb) of the host: a new empty code cell below
\* the active cell, which becomes the active cell (line 134).
InsertBelow(list, active) == CellsInsert(list, active + 1, NewCell("code", <<>>))

\* addNotebookCell(cellType, source)
AddNotebookCell(cellType, source) ==
    LET inserted == InsertBelow(cells, activeCellIndex)
        numCells == Len(inserted)
    IN  /\ compoundDepth = 0
        /\ Len(cells) <= MaxCells
        /\ cells' = CellsSet(inserted, numCells - 1, NewCell(cellType, source))
        /\ activeCellIndex' = activeCellIndex + 1
        /\ lastOp' = [NoOp EXCEPT !.op = "add", !.index = numCells - 1,
                                  !.numCells = Len(cells), !.returned = "true",
                                  !.began = TRUE, !.replaced = TRUE,
                                  !.updated = TRUE, !.before = cells,
                                  !.made = NewCell(cellType, source)]
        /\ UNCHANGED <<compoundDepth, otherThanNb>>

\* The user makes another cell the active one.
Activate(index) ==
    /\ index >= 0 /\ index < Len(cells)
    /\ index # activeCellIndex
    /\ activeCellIndex' = index
    /\ UNCHANGED <<cells, compoundDepth, lastOp, otherThanNb>>

NbIdle ==
    /\ cells = <<>>
    /\ activeCellIndex = -1
    /\ compoundDepth = 0
    /\ lastOp = NoOp

NbInit ==
    /\ cells \in Documents
    /\ activeCellIndex \in {i \in -1..(Len(cells) - 1) : i = -1 <=> cells = <<>>}
    /\ compoundDepth = 0
    /\ lastOp = NoOp

NbNext ==
    \/ \E i \in -1..(MaxCells + 1), t \in CellTypes, src \in DocSources :
          SetNotebookCell(i, t, src)
    \/ \E t \in CellTypes, src \in DocSources : AddNotebookCell(t, src)
    \/ \E i \in 0..(MaxCells - 1) : Activate(i)

(***************************************************************************)
(* Cell execution synchronizer: waitForMarkdonCellRendered (lines 212-224) *)
(* and waitForCellRun (lines 226-295).                                     *)
(*                                                                         *)
(* Time is counted in ms and passes only by timers coming due: a timer     *)
(* holds the ms left until it fires, and the timer with the least fires    *)
(* next (either one when two are due together).  The host changes the DOM  *)
(* at any moment in between.  A continuation of an await runs in the same  *)
(* step as the resolution it waited for.  While a markdown cell is awaited *)
(* to be ready no timer runs, and that time is not counted.                *)
(***************************************************************************)
PollInterval == 200
DefaultTimeout == 2000
NoTimer == -1
Timeouts == {0, 100, 200, 300, 500, DefaultTimeout}
emptyPrompt == "[ ]:"
runningPrompt == "[*]:"
\* the prompt of a code cell: not run, running, or run; other cells show none
Prompts == {emptyPrompt, runningPrompt, "[1]:"}
PromptsOf(cellType) == IF cellType = "code" THEN Prompts ELSE {""}
LoadingWidget == "Loading widget..."
\* what querySelector('.jp-Cell-outputArea .jp-OutputArea-output') can find:
\* no node, the placeholder, or a node with other content
RealOutputs == {"out1", "out2"}
Outputs == {Null, LoadingWidget} \cup RealOutputs

\* code.trim()  (line 229)
RECURSIVE TrimLeft(_)
TrimLeft(text) ==
    IF text # <<>> /\ Head(text) \in Whitespace THEN TrimLeft(Tail(text)) ELSE text

RECURSIVE TrimRight(_)
TrimRight(text) ==
    IF text # <<>> /\ text[Len(text)] \in Whitespace
    THEN TrimRight(SubSeq(text, 1, Len(text) - 1))
    ELSE text

TrimNothing(text) == text

Trim(text) == TrimRight(TrimLeft(text))

\* the XPath of lines 237 and 240, evaluated in cell.node: the prompt div
\* whose text is the marker
PromptQueryNone(marker) == Null

PromptQuery(marker) == IF prompt = marker THEN "promptNode" ELSE Null

NoSync ==
    [pc |-> "idle", result |-> "pending", numTries |-> 0,
     timer |-> NoTimer, timeoutTimer |-> NoTimer]

NoHist ==
    [armed |-> FALSE, queried |-> FALSE, by |-> "none", seen |-> "unchecked",
     triesBefore |-> 0, phaseStart |-> NoTimer, resolvedAt |-> NoTimer,
     onlyLoading |-> FALSE, shownLoading |-> FALSE, sawLoading |-> FALSE,
     removed |-> FALSE, emptyGone |-> FALSE, runningGone |-> FALSE,
     readySeen |-> FALSE, renderedSeen |-> FALSE, timeoutArms |-> 0,
     atTimeout |-> "none"]

Pending(s) == s.result = "pending"

\* clearAndResolve(output), lines 255-261.  A promise resolves once: a later
\* resolve leaves it as it is.
ClearAndResolve(s, value) ==
    [s EXCEPT !.timer = NoTimer, !.timeoutTimer = NoTimer,
              !.result = IF Pending(s) THEN value ELSE @,
              !.pc = "returned"]

\* startTimeout(), lines 263-269
StartTimeoutRearming(s) == [s EXCEPT !.timeoutTimer = timeout]

StartTimeout(s) ==
    IF s.timeoutTimer = NoTimer THEN [s EXCEPT !.timeoutTimer = timeout] ELSE s

\* checkIfDone(), lines 271-286: what it does on finding `out`
CheckIfDoneBlindToPlaceholder(s, out) ==
    LET t == IF out # Null THEN ClearAndResolve(s, out)
             ELSE IF s.numTries > 0 THEN ClearAndResolve(s, Null)
             ELSE s
    IN  [t EXCEPT !.numTries = @ + 1]

CheckIfDoneKeepsWaiting(s, out) ==
    LET t == IF out # Null
             THEN IF out = LoadingWidget THEN StartTimeout(s)
                                         ELSE ClearAndResolve(s, out)
             ELSE s
    IN  [t EXCEPT !.numTries = @ + 1]

CheckIfDoneNoGrace(s, out) ==
    LET t == IF out # Null
             THEN IF out = LoadingWidget THEN StartTimeout(s)
                                         ELSE ClearAndResolve(s, out)
             ELSE ClearAndResolve(s, Null)
    IN  [t EXCEPT !.numTries = @ + 1]

CheckIfDone(s, out) ==
    LET t == IF out # Null
             THEN IF out = LoadingWidget THEN StartTimeout(s)
                                         ELSE ClearAndResolve(s, out)
             ELSE IF s.numTries > 0 THEN ClearAndResolve(s, Null)
             ELSE s
    IN  [t EXCEPT !.numTries = @ + 1]

\* the interval callback of waitForMarkdonCellRendered, lines 217-221
MarkdownTickBlind(isRendered) == TRUE

MarkdownTick(isRendered) == isRendered

\* The history after a checkIfDone that took the call from s to t.
HistAfterCheck(h, s, t, out, now) ==
    IF ~Pending(s)
    THEN [h EXCEPT !.timeoutArms = IF s.timeoutTimer = NoTimer
                                      /\ t.timeoutTimer # NoTimer
                                   THEN @ + 1 ELSE @]
    ELSE [h EXCEPT !.queried = TRUE,
                   !.seen = out,
                   !.triesBefore = s.numTries,
                   !.sawLoading = @ \/ out = LoadingWidget,
                   !.timeoutArms = IF s.timeoutTimer = NoTimer
                                      /\ t.timeoutTimer # NoTimer
                                   THEN @ + 1 ELSE @,
                   !.by = IF Pending(t) THEN @ ELSE "check",
                   !.resolvedAt = IF Pending(t) THEN @ ELSE now]

\* The timers still running, and the least time left on any of them.
Dues(s) == {s.timer, s.timeoutTimer} \ {NoTimer}
MayFire(due) ==
    /\ due # NoTimer
    /\ \A d \in Dues(sync) : due <= d
    /\ elapsed + due <= MaxPolls * PollInterval

\* The call after `due` ms have passed and the interval has come due: it is
\* set for its next round.
AfterInterval(s, due) ==
    [s EXCEPT !.timer = PollInterval,
              !.timeoutTimer = IF @ = NoTimer THEN @ ELSE @ - due]

\* waitForCellRun(cell, timeout) up to its first await (lines 226-238), on
\* cell c while the DOM shows `out` as its output
SyncAfterCall(c) ==
    IF Trim(c.source) = <<>>
    THEN [NoSync EXCEPT !.pc = "returned", !.result = Null]
    ELSE [NoSync EXCEPT !.pc = "emptyPrompt", !.timer = PollInterval]

HistAfterCall(c, out) ==
    IF Trim(c.source) = <<>>
    THEN [NoHist EXCEPT !.by = "empty", !.resolvedAt = 0,
                        !.onlyLoading = (out = LoadingWidget),
                        !.shownLoading = (out = LoadingWidget)]
    ELSE [NoHist EXCEPT !.armed = TRUE,
                        !.onlyLoading = (out = LoadingWidget),
                        !.shownLoading = (out = LoadingWidget)]

WaitForCellRun(t) ==
    /\ sync.pc = "idle"
    /\ run.pc = "idle"
    /\ timeout' = t
    /\ sync' = SyncAfterCall(cell)
    /\ hist' = HistAfterCall(cell, output)
    /\ UNCHANGED <<cell, prompt, output, ready, rendered, elapsed, otherThanCell>>

\* The interval of the first waitForXPath comes due (lines 104-117, 236-238);
\* when it resolves, the second waitForXPath starts its own interval.
EmptyPromptTick ==
    /\ sync.pc = "emptyPrompt"
    /\ MayFire(sync.timer)
    /\ elapsed' = elapsed + sync.timer
    /\ LET t == WaitTick(WaitForHidden("hidden"), PromptQuery(emptyPrompt))
       IN  sync' = [sync EXCEPT !.timer = PollInterval,
                                !.pc = IF t.resolve THEN "runningPrompt" ELSE @]
    /\ hist' = [hist EXCEPT !.queried = TRUE,
                            !.emptyGone = (prompt # emptyPrompt)]
    /\ UNCHANGED <<cell, timeout, prompt, output, ready, rendered, otherThanCell>>

\* The call once both prompt waits are over (lines 243-293).
AfterPrompts(s) ==
    IF cell.cell_type = "markdown"
    THEN \* await cell.ready, then setInterval (lines 213-216)
         IF ready THEN [s EXCEPT !.pc = "mdPoll", !.timer = PollInterval]
                  ELSE [s EXCEPT !.pc = "mdReady", !.timer = NoTimer]
    ELSE IF cell.cell_type = "raw"
    THEN [s EXCEPT !.pc = "returned", !.timer = NoTimer, !.result = Null]
    ELSE \* numTries = 0; checkIfDone(); timer = setInterval(...)
         LET first == CheckIfDone([s EXCEPT !.pc = "output", !.timer = NoTimer,
                                            !.numTries = 0], output)
         IN  [first EXCEPT !.timer = PollInterval]

\* The interval of the second waitForXPath comes due (lines 239-241).
RunningPromptTick ==
    /\ sync.pc = "runningPrompt"
    /\ MayFire(sync.timer)
    /\ elapsed' = elapsed + sync.timer
    /\ LET t == WaitTick(WaitForHidden("hidden"), PromptQuery(runningPrompt))
           now == elapsed + sync.timer
           entered == [sync EXCEPT !.pc = "output", !.timer = NoTimer]
           after == AfterPrompts(sync)
           h == [hist EXCEPT !.queried = TRUE,
                             !.runningGone = (prompt # runningPrompt)]
       IN  IF ~t.resolve
           THEN /\ sync' = [sync EXCEPT !.timer = PollInterval]
                /\ hist' = h
           ELSE /\ sync' = after
                /\ hist' =
                     IF cell.cell_type = "code"
                     THEN HistAfterCheck([h EXCEPT !.phaseStart = now],
                                         entered, after, output, now)
                     ELSE IF cell.cell_type = "raw"
                     THEN [h EXCEPT !.by = "raw", !.resolvedAt = now]
                     ELSE h
    /\ UNCHANGED <<cell, timeout, prompt, output, ready, rendered, otherThanCell>>

\* cell.ready is fulfilled; a call awaiting it starts its interval (line 216).
CellReady ==
    /\ ~ready
    /\ ready' = TRUE
    /\ sync' = IF sync.pc = "mdReady"
               THEN [sync EXCEPT !.pc = "mdPoll", !.timer = PollInterval]
               ELSE sync
    /\ UNCHANGED <<cell, timeout, prompt, output, rendered, elapsed, hist,
                   otherThanCell>>

\* The interval of waitForMarkdonCellRendered comes due (lines 216-222); when
\* it resolves, waitForCellRun returns null (line 246).
MarkdownPollTick ==
    /\ sync.pc = "mdPoll"
    /\ MayFire(sync.timer)
    /\ elapsed' = elapsed + sync.timer
    /\ IF MarkdownTick(rendered)
       THEN /\ sync' = [sync EXCEPT !.pc = "returned", !.timer = NoTimer,
                                    !.result = Null]
            /\ hist' = [hist EXCEPT !.by = "markdown", !.readySeen = ready,
                                    !.renderedSeen = rendered,
                                    !.resolvedAt = elapsed + sync.timer]
       ELSE /\ sync' = [sync EXCEPT !.timer = PollInterval]
            /\ hist' = hist
    /\ UNCHANGED <<cell, timeout, prompt, output, ready, rendered, otherThanCell>>

\* The interval of line 290 comes due: checkIfDone().  It keeps coming due
\* after the promise has resolved for as long as it has not been cleared.
OutputPollTick ==
    /\ sync.pc \in {"output", "returned"}
    /\ MayFire(sync.timer)
    /\ elapsed' = elapsed + sync.timer
    /\ LET before == AfterInterval(sync, sync.timer)
           after == CheckIfDone(before, output)
       IN  /\ sync' = after
           /\ hist' = HistAfterCheck(hist, before, after, output,
                                     elapsed + sync.timer)
    /\ UNCHANGED <<cell, timeout, prompt, output, ready, rendered, otherThanCell>>

\* The stall timeout comes due: clearAndResolve(null) (lines 265-267).
TimeoutFires ==
    /\ MayFire(sync.timeoutTimer)
    /\ elapsed' = elapsed + sync.timeoutTimer
    /\ sync' = ClearAndResolve(sync, Null)
    /\ hist' = IF Pending(sync)
               THEN [hist EXCEPT !.by = "timeout",
                                 !.atTimeout = output,
                                 !.resolvedAt = elapsed + sync.timeoutTimer]
               ELSE hist
    /\ UNCHANGED <<cell, timeout, prompt, output, ready, rendered, otherThanCell>>

\* The host changes the prompt of the cell.
SetPrompt(p) ==
    /\ sync.pc \in {"emptyPrompt", "runningPrompt"}
    /\ p \in PromptsOf(cell.cell_type)
    /\ p # prompt
    /\ prompt' = p
    /\ UNCHANGED <<cell, timeout, output, ready, rendered, sync, elapsed, hist,
                   otherThanCell>>

\* The host adds, replaces or removes the output of the cell.
SetOutput(o) ==
    /\ sync.pc # "idle"
    /\ cell.cell_type = "code"
    /\ o # output
    /\ output' = o
    /\ hist' = [hist EXCEPT !.onlyLoading = FALSE,
                            !.shownLoading = @ \/ o = LoadingWidget,
                            !.removed = @ \/ o = Null]
    /\ UNCHANGED <<cell, timeout, prompt, ready, rendered, sync, elapsed,
                   otherThanCell>>

\* The host renders the markdown cell, or shows its source again.
SetRendered(b) ==
    /\ sync.pc \in {"mdReady", "mdPoll"}
    /\ b # rendered
    /\ rendered' = b
    /\ UNCHANGED <<cell, timeout, prompt, output, ready, sync, elapsed, hist,
                   otherThanCell>>

CellIdle ==
    /\ cell = NewCell("raw", <<>>)
    /\ timeout = DefaultTimeout
    /\ prompt = ""
    /\ output = Null
    /\ ready = FALSE
    /\ rendered = FALSE
    /\ sync = NoSync
    /\ elapsed = 0
    /\ hist = NoHist

CellInit ==
    /\ cell \in [cell_type : CellTypes, source : Sources]
    /\ timeout = DefaultTimeout
    /\ prompt \in PromptsOf(cell.cell_type)
    /\ output \in (IF cell.cell_type = "code" THEN Outputs ELSE {Null})
    /\ ready \in (IF cell.cell_type = "markdown" THEN BOOLEAN ELSE {TRUE})
    /\ rendered \in (IF cell.cell_type = "markdown" THEN BOOLEAN ELSE {FALSE})
    /\ sync = NoSync
    /\ elapsed = 0
    /\ hist = NoHist

CellNext ==
    \/ \E t \in Timeouts : WaitForCellRun(t)
    \/ EmptyPromptTick
    \/ RunningPromptTick
    \/ CellReady
    \/ MarkdownPollTick
    \/ OutputPollTick
    \/ TimeoutFires
    \/ \E p \in Prompts : SetPrompt(p)
    \/ \E o \in Outputs : SetOutput(o)
    \/ \E b \in BOOLEAN : SetRendered(b)

(***************************************************************************)
(* Sequential run orchestrator: runActiveNotebookCellByCell (lines         *)
(* 304-353).  It runs on the notebook document above and calls             *)
(* waitForCellRun and notebookWillScroll; what it does is recorded in      *)
(* `events`.  Each action is the code between two awaits.                  *)
(***************************************************************************)
RunCells == {NewCell("code", <<"x">>), NewCell("markdown", <<"x">>),
             NewCell("raw", <<"x">>), NewCell("code", <<" ">>)}
RunDocuments == UNION {[1..n -> RunCells] : n \in 0..MaxCells}
Callbacks ==
    {[given |-> FALSE, onAfterCellRun |-> FALSE, onBeforeScroll |-> FALSE,
      onAfterScroll |-> FALSE]}
    \cup [given : {TRUE}, onAfterCellRun : BOOLEAN, onBeforeScroll : BOOLEAN,
          onAfterScroll : BOOLEAN]
ScrollTops == {0, 50}
Bottoms == {310, 700}

\* callback && callback.onAfterCellRun  (lines 327, 336, 344)
Has(member) == callback.given /\ callback[member]

Event(name, i) == [e |-> name, i |-> i]

NoRun == [pc |-> "idle", i |-> 0, numCells |-> 0, output |-> Null,
          bottom |-> 0, willScroll |-> FALSE, prevScroll |-> 0]

\* The orchestrator's view of the state it changes.
Bundle == [run |-> run, events |-> events, active |-> activeCellIndex,
           selected |-> selected, scrollTop |-> scrollTop]

\* lines 319-323: make cell i active, select it, trigger its run
StartCell(b, i) ==
    [b EXCEPT !.run = [NoRun EXCEPT !.pc = "running", !.i = i,
                                    !.numCells = b.run.numCells],
              !.active = i,
              !.selected = @ \cup {i},
              !.events = @ \o <<Event("active", i), Event("run", i)>>]

\* the end of the loop body: ++i, i < numCells
NextCell(b) ==
    IF b.run.i + 1 < b.run.numCells
    THEN StartCell(b, b.run.i + 1)
    ELSE [b EXCEPT !.run = [NoRun EXCEPT !.pc = "done",
                                         !.numCells = b.run.numCells]]

\* lines 344-351
AfterScrollStep(b) ==
    IF b.run.willScroll /\ Has("onAfterScroll")
    THEN [b EXCEPT !.run.pc = "afterScroll",
                   !.events = @ \o (IF b.scrollTop # b.run.prevScroll
                                    THEN <<Event("mispredicted", b.run.i)>>
                                    ELSE <<>>)
                              \o <<Event("afterScroll", b.run.i)>>]
    ELSE NextCell(b)

\* lines 340-342: the host scrolls, or not, to newTop
ScrollStep(b, newTop) ==
    AfterScrollStep([b EXCEPT !.run.prevScroll = b.scrollTop,
                              !.scrollTop = newTop,
                              !.events = @ \o <<Event("scroll", b.run.i)>>
                                           \o (IF newTop # b.scrollTop
                                               THEN <<Event("moved", b.run.i)>>
                                               ELSE <<>>)])

\* lines 331-338: the anchor's bottom is `bottom`
PredictStepUnconditional(b, bottom, newTop) ==
    LET willScroll == NotebookWillScroll(viewport, bottom, scrollThreshold)
        c == [b EXCEPT !.run.bottom = bottom, !.run.willScroll = willScroll,
                       !.events = @ \o (IF willScroll
                                        THEN <<Event("predicted", b.run.i)>>
                                        ELSE <<>>)]
    IN  IF Has("onBeforeScroll")
        THEN [c EXCEPT !.run.pc = "beforeScroll",
                       !.events = @ \o <<Event("beforeScroll", b.run.i)>>]
        ELSE ScrollStep(c, newTop)

PredictStep(b, bottom, newTop) ==
    LET willScroll == NotebookWillScroll(viewport, bottom, scrollThreshold)
        c == [b EXCEPT !.run.bottom = bottom, !.run.willScroll = willScroll,
                       !.events = @ \o (IF willScroll
                                        THEN <<Event("predicted", b.run.i)>>
                                        ELSE <<>>)]
    IN  IF willScroll /\ Has("onBeforeScroll")
        THEN [c EXCEPT !.run.pc = "beforeScroll",
                       !.events = @ \o <<Event("beforeScroll", b.run.i)>>]
        ELSE ScrollStep(c, newTop)

\* lines 325-329: waitForCellRun has resolved with out
AfterWaitStepNoAwait(b, out, bottom, newTop) ==
    LET c == [b EXCEPT !.run.output = out,
                       !.events = @ \o <<Event("waited", b.run.i)>>]
    IN  IF Has("onAfterCellRun")
        THEN PredictStep([c EXCEPT !.events =
                             @ \o <<Event("afterCellRun", b.run.i)>>],
                         bottom, newTop)
        ELSE PredictStep(c, bottom, newTop)

AfterWaitStep(b, out, bottom, newTop) ==
    LET c == [b EXCEPT !.run.output = out,
                       !.events = @ \o <<Event("waited", b.run.i)>>]
    IN  IF Has("onAfterCellRun")
        THEN [c EXCEPT !.run.pc = "afterCellRun",
                       !.events = @ \o <<Event("afterCellRun", b.run.i)>>]
        ELSE PredictStep(c, bottom, newTop)

Apply(b) ==
    /\ run' = b.run
    /\ events' = b.events
    /\ activeCellIndex' = b.active
    /\ selected' = b.selected
    /\ scrollTop' = b.scrollTop

\* runActiveNotebookCellByCell(callback) up to its first await (lines 304-323)
RunActiveNotebookCellByCell ==
    /\ run.pc = "idle"
    /\ sync.pc = "idle"
    /\ LET numCells == Len(cells)
           b == [Bundle EXCEPT !.run.numCells = numCells]
       IN  IF numCells = 0
           THEN Apply([b EXCEPT !.run.pc = "done"])
           ELSE Apply(StartCell([b EXCEPT !.selected = {},
                                          !.events = <<Event("deselectAll", 0)>>],
                                0))
    /\ UNCHANGED <<cells, compoundDepth, lastOp, viewport, callback, cellVars,
                   otherThanRun>>

\* What waitForCellRun can resolve with on cell c (lines 230, 246, 248, 260):
\* nothing, or for a code cell an output node that is not the placeholder.
ResultsOf(c) ==
    IF c.cell_type = "code" /\ Trim(c.source) # <<>>
    THEN {Null} \cup RealOutputs
    ELSE {Null}

\* NotebookActions.run settles and waitForCellRun(cell) is called with the
\* default timeout (lines 323-325).
RunSettles ==
    /\ run.pc = "running"
    /\ run' = [run EXCEPT !.pc = "waiting"]
    /\ events' = events \o <<Event("wait", run.i)>>
    /\ cell' = cells[run.i + 1]
    /\ timeout' = DefaultTimeout
    /\ sync' = SyncAfterCall(cell')
    /\ hist' = HistAfterCall(cell', output)
    /\ elapsed' = 0
    /\ UNCHANGED <<prompt, output, ready, rendered, nbVars, viewport, callback,
                   selected, scrollTop, otherThanRun>>

\* The waitForCellRun call of the orchestrator resolves.  Its polling (lines
\* 233-293) is followed step by step in SpecCell; here only its outcome
\* counts, which is any of the results it can have.
CellRunResolves(out) ==
    /\ run.pc = "waiting"
    /\ Pending(sync)
    /\ out \in ResultsOf(cell)
    /\ sync' = [sync EXCEPT !.pc = "returned", !.result = out,
                            !.timer = NoTimer, !.timeoutTimer = NoTimer]
    /\ UNCHANGED <<cell, timeout, prompt, output, ready, rendered, elapsed, hist,
                   otherThanCell>>

\* waitForCellRun has resolved: the loop body goes on to its next await
\* (lines 325-350).
WaitResolved ==
    /\ run.pc = "waiting"
    /\ ~Pending(sync)
    /\ \E bottom \in Bottoms, newTop \in ScrollTops :
          Apply(AfterWaitStep(Bundle, sync.result, bottom, newTop))
    /\ UNCHANGED <<cells, compoundDepth, lastOp, viewport, callback, cellVars,
                   otherThanRun>>

\* onAfterCellRun(i) has completed (line 328).
AfterCellRunReturns ==
    /\ run.pc = "afterCellRun"
    /\ \E bottom \in Bottoms, newTop \in ScrollTops :
          Apply(PredictStep([Bundle EXCEPT !.events =
                                @ \o <<Event("afterCellRunDone", run.i)>>],
                            bottom, newTop))
    /\ UNCHANGED <<cells, compoundDepth, lastOp, viewport, callback, cellVars,
                   otherThanRun>>

\* onBeforeScroll() has completed (line 337).
BeforeScrollReturns ==
    /\ run.pc = "beforeScroll"
    /\ \E newTop \in ScrollTops :
          Apply(ScrollStep([Bundle EXCEPT !.events =
                               @ \o <<Event("beforeScrollDone", run.i)>>],
                           newTop))
    /\ UNCHANGED <<cells, compoundDepth, lastOp, viewport, callback, cellVars,
                   otherThanRun>>

\* onAfterScroll() has completed (line 350).
AfterScrollReturns ==
    /\ run.pc = "afterScroll"
    /\ Apply(NextCell([Bundle EXCEPT !.events =
                          @ \o <<Event("afterScrollDone", run.i)>>]))
    /\ UNCHANGED <<cells, compoundDepth, lastOp, viewport, callback, cellVars,
                   otherThanRun>>

\* A callback throws or rejects: the await rethrows and the call is rejected.
CallbackThrows ==
    /\ run.pc \in {"afterCellRun", "beforeScroll", "afterScroll"}
    /\ run' = [run EXCEPT !.pc = "rejected"]
    /\ UNCHANGED <<callback, selected, scrollTop, events, nbVars, viewport,
                   cellVars, otherThanRun>>

RunIdle ==
    /\ callback \in {c \in Callbacks : ~c.given}
    /\ run = NoRun
    /\ selected = {}
    /\ scrollTop = 0
    /\ events = <<>>

RunInit ==
    /\ cells \in RunDocuments
    /\ activeCellIndex \in {i \in -1..(Len(cells) - 1) : i = -1 <=> cells = <<>>}
    /\ compoundDepth = 0
    /\ lastOp = NoOp
    /\ viewport = [top |-> 100, height |-> 400]
    /\ scrollCall = NoScrollCall
    /\ callback \in Callbacks
    /\ run = NoRun
    /\ selected \in {{}, {i \in 0..(Len(cells) - 1) : TRUE}}
    /\ scrollTop \in ScrollTops
    /\ events = <<>>
    /\ cell = NewCell("raw", <<>>)
    /\ timeout = DefaultTimeout
    /\ prompt = ""
    /\ output = Null
    /\ ready = FALSE
    /\ rendered = FALSE
    /\ sync = NoSync
    /\ elapsed = 0
    /\ hist = NoHist

RunNext ==
    \/ RunActiveNotebookCellByCell
    \/ RunSettles
    \/ WaitResolved
    \/ AfterCellRunReturns
    \/ BeforeScrollReturns
    \/ AfterScrollReturns
    \/ CallbackThrows
    \/ \E out \in Outputs : CellRunResolves(out)

(***************************************************************************)
(* Notebook run waiter: waitForNotebookRun (lines 186-209).  It starts one *)
(* waitForCellRun per cell and awaits them all; each of these calls is     *)
(* summarised by its outcome, as in the orchestrator.  Meanwhile the user  *)
(* and the driver may activate and delete cells.                           *)
(***************************************************************************)
NoNbWait == [pc |-> "idle", numCells |-> 0, cellsAtCall |-> <<>>, runsTriggered |-> 0]

\* new Promise(async (resolve) => { await this.waitForCellRun(cell); resolve(); })
\* (lines 202-205) on cell c, once the microtasks of the call have run: the
\* promise is already resolved when waitForCellRun returned at line 230.
NewPromise(c) == [cell |-> c, result |-> SyncAfterCall(c).result]

\* Promise.all(promises)  (line 208)
AnySettled(ps) == \E i \in 1..Len(ps) : ps[i].result # "pending"

AllSettled(ps) == \A i \in 1..Len(ps) : ps[i].result # "pending"

\* waitForNotebookRun(), up to its await of line 208
WaitForNotebookRun ==
    /\ nbWait.pc = "idle"
    /\ LET numCells == Len(cells)
           started == [i \in 1..numCells |-> NewPromise(cells[i])]
           call == [NoNbWait EXCEPT !.numCells = numCells, !.cellsAtCall = cells]
       IN  IF numCells = 0
           THEN /\ nbWait' = [call EXCEPT !.pc = "done"]
                /\ promises' = <<>>
           ELSE /\ promises' = started
                /\ nbWait' = [call EXCEPT !.pc = IF AllSettled(started)
                                                  THEN "done" ELSE "awaiting"]
    /\ UNCHANGED <<nbVars, selected, otherThanNbWait>>

\* The waitForCellRun call on the i-th cell resolves (with any of the results
\* it can have), the executor of line 202 resolves its promise, and
\* Promise.all resolves once the last of them has.
CellWaitResolves(i, out) ==
    /\ nbWait.pc = "awaiting"
    /\ i \in 1..Len(promises)
    /\ promises[i].result = "pending"
    /\ out \in ResultsOf(promises[i].cell)
    /\ LET ps == [promises EXCEPT ![i].result = out]
       IN  /\ promises' = ps
           /\ nbWait' = [nbWait EXCEPT !.pc = IF AllSettled(ps) THEN "done" ELSE @]
    /\ UNCHANGED <<nbVars, selected, otherThanNbWait>>

\* deleteNotebookCells() (lines 121-128), called by the driver meanwhile:
\* NotebookActions.deleteCells of the host removes the selected cells and the
\* active one, leaves one empty code cell when none is left, and deselects.
Kept(list, gone) ==
    LET keep(i) == (i - 1) \notin gone
    IN  [k \in 1..Cardinality({i \in 1..Len(list) : keep(i)}) |->
            list[CHOOSE i \in 1..Len(list) :
                    keep(i) /\ Cardinality({j \in 1..i : keep(j)}) = k]]

DeleteNotebookCells ==
    /\ cells # <<>>
    /\ LET gone == selected \cup {activeCellIndex}
           kept == Kept(cells, gone)
           left == IF kept = <<>> THEN <<NewCell("code", <<>>)>> ELSE kept
           below == Cardinality({i \in gone : i < activeCellIndex})
       IN  /\ cells' = left
           /\ activeCellIndex' = IF activeCellIndex - below < Len(left)
                                 THEN activeCellIndex - below
                                 ELSE Len(left) - 1
    /\ selected' = {}
    /\ UNCHANGED <<compoundDepth, lastOp, nbWaitVars, otherThanNbWait>>

NbWaitIdle ==
    /\ nbWait = NoNbWait
    /\ promises = <<>>

NbWaitInit ==
    /\ cells \in RunDocuments
    /\ activeCellIndex \in {i \in -1..(Len(cells) - 1) : i = -1 <=> cells = <<>>}
    /\ compoundDepth = 0
    /\ lastOp = NoOp
    /\ callback \in {c \in Callbacks : ~c.given}
    /\ run = NoRun
    /\ selected \in {{}, {i \in 0..(Len(cells) - 1) : TRUE}}
    /\ scrollTop = 0
    /\ events = <<>>
    /\ NbWaitIdle

NbWaitNext ==
    \/ WaitForNotebookRun
    \/ \E i \in 1..(MaxCells + 1), out \in Outputs : CellWaitResolves(i, out)
    \/ \E i \in 0..MaxCells : Activate(i)
    \/ DeleteNotebookCells

(***************************************************************************)
(* Launch waiter: waitForLaunch (lines 66-78).  The two getPlugin calls    *)
(* it awaits are summarised by their resolving (or never resolving); the   *)
(* router emits routed events at any moment, whether or not the handler of *)
(* line 71 is connected yet.                                               *)
(***************************************************************************)
Paths == {"/lab", "/tree"}

NoLaunch ==
    [pc |-> "idle", path |-> "none", resolved |-> FALSE, closeAlls |-> 0,
     closing |-> 0, handled |-> 0, closeAllsAfterResolve |-> 0,
     firstCloseAt |-> 0]

\* waitForLaunch(path), up to the await of line 68
WaitForLaunch(path) ==
    /\ launch.pc = "idle"
    /\ launch' = [NoLaunch EXCEPT !.pc = "router", !.path = path]
    /\ UNCHANGED <<routedLog, otherThanLaunch>>

\* getPlugin(PLUGIN_ID_ROUTER) resolves: getPlugin(PLUGIN_ID_DOC_MANAGER) is
\* called and awaited (lines 68-69).
RouterResolves ==
    /\ launch.pc = "router"
    /\ launch' = [launch EXCEPT !.pc = "docManager"]
    /\ UNCHANGED <<routedLog, otherThanLaunch>>

\* getPlugin(PLUGIN_ID_DOC_MANAGER) resolves: the handler is connected to
\* router.routed (line 71).  Nothing disconnects it afterwards.
DocManagerResolves ==
    /\ launch.pc = "docManager"
    /\ launch' = [launch EXCEPT !.pc = "connected"]
    /\ UNCHANGED <<routedLog, otherThanLaunch>>

\* The handler of lines 71-76 on a routed event with path p, the n-th emitted,
\* up to its await: if (args.path === path) docManager.closeAll()
RoutedHandler(l, p, n) ==
    IF p = l.path
    THEN [l EXCEPT !.handled = @ + 1,
                   !.closeAlls = @ + 1,
                   !.closing = @ + 1,
                   !.closeAllsAfterResolve = IF l.resolved THEN @ + 1 ELSE @,
                   !.firstCloseAt = IF l.closeAlls = 0 THEN n ELSE @]
    ELSE [l EXCEPT !.handled = @ + 1]

\* The router emits a routed event with path p; the handler runs when it is
\* connected.
Routed(p) ==
    /\ Len(routedLog) < MaxRouted
    /\ routedLog' = Append(routedLog, p)
    /\ launch' = IF launch.pc = "connected"
                 THEN RoutedHandler(launch, p, Len(routedLog) + 1)
                 ELSE launch
    /\ UNCHANGED otherThanLaunch

\* A docManager.closeAll() of the handler completes: resolve()  (lines 73-74)
CloseAllCompletes ==
    /\ launch.closing > 0
    /\ launch' = [launch EXCEPT !.closing = @ - 1, !.resolved = TRUE]
    /\ UNCHANGED <<routedLog, otherThanLaunch>>

\* A docManager.closeAll() of the handler fails: the handler's await throws
\* and resolve() is not reached.
CloseAllFails ==
    /\ launch.closing > 0
    /\ launch' = [launch EXCEPT !.closing = @ - 1]
    /\ UNCHANGED <<routedLog, otherThanLaunch>>

LaunchIdle ==
    /\ launch = NoLaunch
    /\ routedLog = <<>>

LaunchInit == LaunchIdle

LaunchNext ==
    \/ \E p \in Paths : WaitForLaunch(p)
    \/ RouterResolves
    \/ DocManagerResolves
    \/ \E p \in Paths : Routed(p)
    \/ CloseAllCompletes
    \/ CloseAllFails

(***************************************************************************)
(* Specifications: one per part of the harness.                            *)
(***************************************************************************)
InitPlugin ==
    PluginInit /\ WaitIdle /\ ScrollIdle /\ NbIdle /\ CellIdle
    /\ RunIdle /\ NbWaitIdle /\ LaunchIdle
SpecPlugin == InitPlugin /\ [][PluginNext]_vars

InitWait ==
    WaitInit /\ PluginIdle /\ ScrollIdle /\ NbIdle /\ CellIdle
    /\ RunIdle /\ NbWaitIdle /\ LaunchIdle
SpecWait == InitWait /\ [][WaitNext]_vars

InitScroll ==
    ScrollInit /\ PluginIdle /\ WaitIdle /\ NbIdle /\ CellIdle
    /\ RunIdle /\ NbWaitIdle /\ LaunchIdle
SpecScroll == InitScroll /\ [][ScrollNext]_vars

InitNotebook ==
    NbInit /\ PluginIdle /\ WaitIdle /\ ScrollIdle /\ CellIdle
    /\ RunIdle /\ NbWaitIdle /\ LaunchIdle
SpecNotebook == InitNotebook /\ [][NbNext]_vars

InitCell ==
    CellInit /\ PluginIdle /\ WaitIdle /\ ScrollIdle /\ NbIdle
    /\ RunIdle /\ NbWaitIdle /\ LaunchIdle
SpecCell == InitCell /\ [][CellNext]_vars

\* The browser runs the callback of every timer that is due: an armed
\* interval or timeout comes due in the end.
FairSpecCell ==
    /\ SpecCell
    /\ WF_vars(OutputPollTick)
    /\ WF_vars(TimeoutFires)

InitRun == RunInit /\ PluginIdle /\ WaitIdle /\ NbWaitIdle /\ LaunchIdle
SpecRun == InitRun /\ [][RunNext]_vars

InitNbWait ==
    NbWaitInit /\ PluginIdle /\ WaitIdle /\ ScrollIdle /\ CellIdle /\ LaunchIdle
SpecNbWait == InitNbWait /\ [][NbWaitNext]_vars

InitLaunch ==
    LaunchInit /\ PluginIdle /\ WaitIdle /\ ScrollIdle /\ NbIdle /\ CellIdle
    /\ RunIdle /\ NbWaitIdle
SpecLaunch == InitLaunch /\ [][LaunchNext]_vars

(***************************************************************************)
(* Properties.                                                             *)
(***************************************************************************)
\* Every result the step-by-step synchronizer reaches is one the orchestrator's
\* summary of it (CellRunResolves) allows.
SyncResultsSummarised ==
    ~Pending(sync) => sync.result \in ResultsOf(cell)

IsAfterCellRun(ev) == ev.e = "afterCellRun"
AfterCellRunCalls == SelectSeq(events, IsAfterCellRun)

\* C1: with an onAfterCellRun callback, runActiveNotebookCellByCell invokes
\* onAfterCellRun(i) once for each index from 0 in increasing order: the k-th
\* invocation is for index k-1, a call that has returned made one for every
\* cell, and the run of a cell other than the first is triggered only after
\* the callback of the cell before it has completed.
C1_AfterCellRunInOrder ==
    Has("onAfterCellRun") =>
        /\ \A k \in 1..Len(AfterCellRunCalls) : AfterCellRunCalls[k].i = k - 1
        /\ Len(AfterCellRunCalls) <= Len(cells)
        /\ run.pc = "done" => Len(AfterCellRunCalls) = Len(cells)
        /\ \A p \in 1..Len(events) :
              (events[p].e = "run" /\ events[p].i > 0) =>
                  \E q \in 1..(p - 1) :
                      events[q] = Event("afterCellRunDone", events[p].i - 1)

\* C1 witness: a call on a notebook of two or more cells, given an
\* onAfterCellRun callback, has returned.
C1_Witness ==
    /\ Has("onAfterCellRun")
    /\ run.pc = "done"
    /\ Len(cells) >= 2
    /\ Len(AfterCellRunCalls) = Len(cells)

\* A call has been made on a code cell whose source is not blank.
CodeCall ==
    /\ sync.pc # "idle"
    /\ cell.cell_type = "code"
    /\ \E i \in 1..Len(cell.source) : cell.source[i] \notin Whitespace

\* C2, as claimed: a code cell with non-empty source whose output node, once
\* there, is real output (never the placeholder, never removed) is never
\* resolved with nothing, however late the output node appears.
C2_NeverNothingWhateverTheDelay ==
    (CodeCall /\ ~Pending(sync) /\ output \in RealOutputs
              /\ ~hist.shownLoading /\ ~hist.removed) =>
        sync.result \in RealOutputs

\* C2, amended: a call on a code cell with non-empty source resolves with an
\* output node only after both prompt markers were seen gone, in the first
\* output check that finds a node other than the placeholder, and with that
\* node; it resolves with nothing only in a check after the first that still
\* finds no output node, or by the stall timeout after a check found the
\* placeholder.  So output that is there by the second check (one poll
\* interval after the running prompt was seen gone) is returned, and output
\* that appears later is missed.
C2_ResolvesWithOutputFoundByCheck ==
    CodeCall =>
        /\ hist.phaseStart = NoTimer => Pending(sync)
        /\ hist.phaseStart # NoTimer => hist.emptyGone /\ hist.runningGone
        /\ sync.result # LoadingWidget
        /\ sync.result \in RealOutputs =>
              hist.by = "check" /\ hist.seen = sync.result
        /\ sync.result = Null =>
              \/ hist.by = "timeout" /\ hist.sawLoading
              \/ hist.by = "check" /\ hist.seen = Null /\ hist.triesBefore > 0
        /\ (Pending(sync) /\ hist.phaseStart # NoTimer) =>
              /\ hist.seen \notin RealOutputs
              /\ hist.seen = Null => hist.triesBefore = 0

\* C2 witness: the first output check found no node, the second found real
\* output, and the call resolved with it.
C2_Witness ==
    /\ CodeCall
    /\ sync.result \in RealOutputs
    /\ hist.triesBefore = 1
    /\ hist.resolvedAt = hist.phaseStart + PollInterval

\* C3, as claimed: a call on a code cell whose output node shows the
\* placeholder for the whole wait resolves with nothing between timeout and
\* timeout + 200 ms after the call.
C3_TimesOutCountedFromCall ==
    (CodeCall /\ ~Pending(sync) /\ hist.onlyLoading) =>
        /\ sync.result = Null
        /\ hist.resolvedAt >= timeout
        /\ hist.resolvedAt <= timeout + PollInterval

\* C3, amended: such a call resolves with nothing, by the stall timeout,
\* between timeout and timeout + 200 ms after the output phase started, which
\* is when the wait for the running prompt ended, at least two poll intervals
\* after the call.
C3_TimesOutCountedFromOutputPhase ==
    (CodeCall /\ ~Pending(sync) /\ hist.onlyLoading) =>
        /\ sync.result = Null
        /\ hist.by = "timeout"
        /\ hist.phaseStart >= 2 * PollInterval
        /\ hist.resolvedAt - hist.phaseStart >= timeout
        /\ hist.resolvedAt - hist.phaseStart <= timeout + PollInterval
        /\ hist.resolvedAt >= timeout

\* C3 witness: a call with the default timeout, made while the prompt still
\* showed a marker, was resolved by the stall timeout with the placeholder
\* showing throughout.
C3_Witness ==
    /\ CodeCall
    /\ ~Pending(sync)
    /\ hist.onlyLoading
    /\ timeout = DefaultTimeout
    /\ hist.phaseStart > 2 * PollInterval
    /\ hist.by = "timeout"

\* C4: a call on a markdown cell with non-empty source resolves with nothing,
\* and only in a poll that runs after the cell's ready signal and finds the
\* cell rendered; it arms no stall timeout.
C4_MarkdownResolvesOnlyRendered ==
    (/\ sync.pc # "idle"
     /\ cell.cell_type = "markdown"
     /\ \E i \in 1..Len(cell.source) : cell.source[i] \notin Whitespace) =>
        /\ sync.timeoutTimer = NoTimer
        /\ sync.pc = "mdPoll" => ready
        /\ ~Pending(sync) =>
              /\ sync.result = Null
              /\ hist.by = "markdown"
              /\ hist.readySeen
              /\ hist.renderedSeen
              /\ hist.emptyGone /\ hist.runningGone
              /\ sync.timer = NoTimer

\* C4 witness: a markdown cell that was not ready when the prompt waits ended
\* and was not rendered at its first poll has resolved.
C4_Witness ==
    /\ cell.cell_type = "markdown"
    /\ hist.by = "markdown"
    /\ sync.result = Null
    /\ hist.resolvedAt >= 4 * PollInterval

\* C5: a call on a cell of any kind whose source is empty or only whitespace
\* returns nothing at once: no interval and no timeout is armed and no DOM
\* query is evaluated.
C5_BlankSourceReturnsWithoutPolling ==
    (/\ sync.pc # "idle"
     /\ \A i \in 1..Len(cell.source) : cell.source[i] \in Whitespace) =>
        /\ sync.pc = "returned"
        /\ sync.result = Null
        /\ hist.by = "empty"
        /\ ~hist.armed
        /\ ~hist.queried
        /\ sync.timer = NoTimer
        /\ sync.timeoutTimer = NoTimer
        /\ elapsed = 0

\* C5 witness: a call on a code cell holding only a newline and a space has
\* returned nothing while the cell shows output.
C5_Witness ==
    /\ sync.pc = "returned"
    /\ cell.cell_type = "code"
    /\ cell.source = <<"\n", " ">>
    /\ output \in RealOutputs
    /\ sync.result = Null

\* C6: setNotebookCell(index, kind, source) with index < 0 or index >= the
\* number of cells returns false and leaves the document as it was: no compound
\* operation is begun, no cell is replaced, no re-render is forced.
C6_SetOutOfRangeChangesNothing ==
    (lastOp.op = "set" /\ (lastOp.index < 0 \/ lastOp.index >= lastOp.numCells)) =>
        /\ lastOp.returned = "false"
        /\ cells = lastOp.before
        /\ ~lastOp.began
        /\ ~lastOp.replaced
        /\ ~lastOp.updated
        /\ compoundDepth = 0

\* C6 witness: setNotebookCell was called on a notebook with cells, with the
\* index just past the last cell, and returned false.
C6_Witness ==
    /\ lastOp.op = "set"
    /\ lastOp.numCells > 0
    /\ lastOp.index = lastOp.numCells
    /\ lastOp.returned = "false"

C8_WillScrollBeyondThreshold ==
    scrollCall.called =>
        LET top == viewport.top
            height == viewport.height
            position == scrollCall.position
            threshold == scrollCall.threshold
            below == 200 * position > 200 * top + 100 * height + 2 * height * threshold
            above == 200 * position < 200 * top + 100 * height - 2 * height * threshold
        IN  /\ scrollCall.result <=> (below \/ above)
            /\ (top = 100 /\ height = 400 /\ threshold = 45) =>
                  /\ position = 700 => scrollCall.result
                  /\ position \in {310, 480, 120} => ~scrollCall.result

\* C8 witness: the call with top 100, height 400, threshold 45 and position 700
\* has answered that the notebook will scroll.
C8_Witness ==
    /\ scrollCall.called
    /\ viewport = [top |-> 100, height |-> 400]
    /\ scrollCall.threshold = 45
    /\ scrollCall.position = 700
    /\ scrollCall.result

\* The calls made for a plugin the registry knows and whose data is readable.
KnownCalls ==
    {c \in CallIds : /\ calls[c].state # "unused"
                     /\ registered[calls[c].id]
                     /\ pluginMapExposed}

\* C9: getPlugin(id) for a capability known to the registry: a call that found
\* it active is resolved with its service and never invoked activatePlugin; a
\* call that found it inactive invoked activatePlugin exactly once and is
\* resolved, with the service, only once that activation has completed,
\* whatever value the activation answered with.
C9_GetPluginResolvesAfterActivation ==
    \A c \in KnownCalls :
        IF calls[c].wasActive
        THEN /\ calls[c].state = "resolved"
             /\ calls[c].value = ServiceOf(calls[c].id)
             /\ calls[c].activations = 0
        ELSE /\ calls[c].activations = 1
             /\ calls[c].state = "resolved" =>
                    /\ hostPromise[calls[c].id] = "fulfilled"
                    /\ calls[c].awaited
                    /\ calls[c].value = ServiceOf(calls[c].id)
             /\ calls[c].state # "resolved" => calls[c].value = NoService

\* C9 witness: one call found its plugin active, another found its plugin
\* inactive and was resolved after an activation that answered with a payload.
C9_Witness ==
    \E c, d \in KnownCalls :
        /\ calls[c].wasActive /\ calls[c].state = "resolved"
        /\ ~calls[d].wasActive /\ calls[d].state = "resolved"
        /\ calls[d].response = "payload"

\* C10: getPlugin(id) never settles and triggers no activation when the
\* registry reports the capability unknown; it never settles either when the
\* plugin lookup throws: the error is logged and the promise stays pending.
C10_GetPluginHangs ==
    \A c \in CallIds :
        /\ (calls[c].state # "unused" /\ ~registered[calls[c].id]) =>
               /\ calls[c].state = "pending"
               /\ calls[c].activations = 0
               /\ hostPromise[calls[c].id] = "none"
               /\ ~calls[c].logged
        /\ (calls[c].state # "unused" /\ registered[calls[c].id]
                                      /\ ~pluginMapExposed) =>
               /\ calls[c].state = "pending"
               /\ calls[c].activations = 0
               /\ calls[c].logged

\* C10 witness: a call for an unknown capability and a call whose lookup threw
\* have both been made.
C10_Witness ==
    \E c, d \in CallIds :
        /\ calls[c].state = "pending" /\ ~registered[calls[c].id]
        /\ calls[d].state = "pending" /\ registered[calls[d].id]
        /\ ~pluginMapExposed /\ calls[d].logged

\* What holds in every state of a waitForNotebookRun call: one promise per
\* cell there was at the call, all of them started by the call itself; the
\* call returns at once on an empty notebook and otherwise only when every
\* one of them is resolved; it has triggered no run.
NbWaitStarted ==
    nbWait.pc # "idle" =>
        /\ Len(promises) = nbWait.numCells
        /\ nbWait.numCells = Len(nbWait.cellsAtCall)
        /\ \A i \in 1..Len(promises) : promises[i].cell = nbWait.cellsAtCall[i]
        /\ nbWait.numCells = 0 => nbWait.pc = "done"
        /\ nbWait.pc = "done" =>
               \A i \in 1..Len(promises) : promises[i].result # "pending"
        /\ nbWait.runsTriggered = 0

\* C11: waitForNotebookRun starts one waitForCellRun per cell existing at the
\* call, all of them in the call itself (concurrently), and resolves only once
\* every one of them has resolved, at once when there is no cell; no step of
\* it triggers a run or changes the cells, the selection or the active cell
\* index.
C11_NotebookRunAwaitsAll ==
    /\ []NbWaitStarted
    /\ [][nbWaitVars' # nbWaitVars =>
             UNCHANGED <<cells, selected, activeCellIndex>>]_vars

\* C11 witness: a call on two or more cells has returned after cells were
\* deleted from the document under it, and one of its waits gave an output
\* node.
C11_Witness ==
    /\ nbWait.pc = "done"
    /\ nbWait.numCells >= 2
    /\ Len(cells) < nbWait.numCells
    /\ \E i \in 1..Len(promises) : promises[i].result \in RealOutputs

\* The place of each step in the loop body of lines 319-351.
StepOrder ==
    [deselectAll |-> 0, active |-> 1, run |-> 2, wait |-> 3, waited |-> 4,
     afterCellRun |-> 5, afterCellRunDone |-> 6, predicted |-> 7,
     beforeScroll |-> 8, beforeScrollDone |-> 9, scroll |-> 10, moved |-> 11,
     mispredicted |-> 12, afterScroll |-> 13, afterScrollDone |-> 14]

Happened(name, i) == \E p \in 1..Len(events) : events[p] = Event(name, i)

HappenedBefore(name, i, q) == \E p \in 1..(q - 1) : events[p] = Event(name, i)

C13_MismatchLoggedIffNotScrolled ==
    \A i \in 0..(Len(cells) - 1) :
        /\ (Has("onAfterScroll") /\ Happened("predicted", i)
                                 /\ Happened("scroll", i)) =>
               (Happened("mispredicted", i) <=> ~Happened("moved", i))
        /\ Happened("mispredicted", i) => Happened("afterScroll", i)

\* A call has been made on a cell, of any kind, whose source is not blank.
NonBlankCall ==
    /\ sync.pc # "idle"
    /\ \E i \in 1..Len(cell.source) : cell.source[i] \notin Whitespace

\* C14: in a waitForCellRun call on a cell with non-empty source, the wait
\* for the empty prompt to be absent is over before the wait for the running
\* prompt starts, and nothing else (output check, stall timeout, markdown
\* poll, return for a raw cell) happens before the running prompt was seen
\* absent; so a call whose running prompt never goes away never resolves,
\* whatever the timeout.
C14_PromptWaitsComeFirstInOrder ==
    NonBlankCall =>
        /\ sync.pc = "emptyPrompt" => ~hist.runningGone
        /\ sync.pc # "emptyPrompt" => hist.emptyGone
        /\ sync.pc \notin {"emptyPrompt", "runningPrompt"} => hist.runningGone
        /\ sync.pc \in {"emptyPrompt", "runningPrompt"} =>
              /\ Pending(sync)
              /\ hist.seen = "unchecked"
              /\ hist.phaseStart = NoTimer
              /\ sync.timeoutTimer = NoTimer
              /\ sync.numTries = 0
              /\ hist.by = "none"
        /\ ~Pending(sync) => hist.emptyGone /\ hist.runningGone

\* C14 witness: a call with timeout 0 on a code cell stayed in its prompt
\* waits for more than one poll each way round, and resolved only after the
\* running prompt was seen absent.
C14_Witness ==
    /\ NonBlankCall
    /\ cell.cell_type = "code"
    /\ timeout = 0
    /\ ~Pending(sync)
    /\ hist.phaseStart >= 4 * PollInterval

\* C15: in the output phase of a call on a code cell, the first check is made
\* when the phase starts and leaves the call pending when it finds no output
\* node; a later check that finds none resolves the call with nothing, also
\* when a placeholder seen before has been removed since.
C15_FirstCheckGraceThenNothing ==
    (CodeCall /\ hist.phaseStart # NoTimer) =>
        /\ hist.seen # "unchecked"
        /\ (hist.seen = Null /\ hist.triesBefore = 0) =>
              /\ Pending(sync)
              /\ sync.numTries = 1
              /\ sync.timer # NoTimer
        /\ (hist.seen = Null /\ hist.triesBefore > 0) =>
              /\ sync.result = Null
              /\ hist.by = "check"

\* C15 witness: a check after the first found no output node where an earlier
\* one had found the placeholder, and resolved the call with nothing.
C15_Witness ==
    /\ CodeCall
    /\ hist.sawLoading
    /\ hist.seen = Null
    /\ hist.triesBefore > 0
    /\ hist.by = "check"
    /\ sync.result = Null

\* C16, as claimed: once a call on a code cell has resolved, neither the poll
\* interval nor the stall timeout is armed, and no output check has run since
\* the one that resolved it (or since the last one before the timeout did).
C16_ResolvedLeavesNoTimer ==
    (CodeCall /\ ~Pending(sync)) =>
        /\ sync.timer = NoTimer
        /\ sync.timeoutTimer = NoTimer
        /\ sync.numTries = hist.triesBefore + 1

\* What holds of the output phase of a call on a code cell in every state:
\* the stall timeout has been armed at most once, a resolved call resolved
\* within timeout + 200 ms of the phase's start, and a pending call has its
\* interval armed and its next timer due within that time (before the second
\* check: within 200 ms), so that no later observation moves the deadline.
OutputPhaseDeadline ==
    (CodeCall /\ hist.phaseStart # NoTimer) =>
        /\ hist.timeoutArms <= 1
        /\ ~Pending(sync) =>
              hist.resolvedAt - hist.phaseStart <= PollInterval + timeout
        /\ Pending(sync) =>
              /\ sync.timer # NoTimer
              /\ sync.timeoutTimer = NoTimer =>
                    /\ sync.numTries = 1
                    /\ hist.timeoutArms = 0
                    /\ elapsed + sync.timer - hist.phaseStart <= PollInterval
              /\ sync.timeoutTimer # NoTimer =>
                    /\ hist.timeoutArms = 1
                    /\ elapsed + sync.timeoutTimer - hist.phaseStart
                          <= PollInterval + timeout

\* C17: once both prompt waits of a call on a code cell are over, the call
\* resolves whatever the output node does, at the latest timeout + 200 ms
\* after the output phase started; the stall timeout is armed at most once
\* and later placeholder observations neither re-arm nor extend it.  (The
\* model follows timers up to MaxPolls * 200 ms: the call is required to
\* resolve when its deadline lies within that time.)
C17_OutputPhaseAlwaysResolves ==
    /\ []OutputPhaseDeadline
    /\ (CodeCall /\ hist.phaseStart # NoTimer
           /\ hist.phaseStart + PollInterval + timeout <= MaxPolls * PollInterval)
       ~> ~Pending(sync)

\* C17 witness: a call was resolved by the stall timeout at the latest moment,
\* timeout + 200 ms after the phase started, after checks that saw the
\* placeholder again once the timeout was armed.
C17_Witness ==
    /\ CodeCall
    /\ hist.by = "timeout"
    /\ hist.timeoutArms = 1
    /\ timeout > PollInterval
    /\ sync.numTries >= 3
    /\ hist.resolvedAt - hist.phaseStart = PollInterval + timeout

\* C18, as claimed: a call on a code cell is resolved with nothing by the
\* stall timeout only if the output node still shows the placeholder when
\* the timeout fires; real output that has replaced the placeholder by then
\* is what the call resolves with.
C18_TimeoutOnlyWhilePlaceholderShows ==
    (CodeCall /\ hist.by = "timeout") => hist.atTimeout = LoadingWidget

\* C19, as claimed: addNotebookCell(kind, source) returns true with no
\* compound operation left open, and the document after it is the document
\* before it with one cell of the given kind and source put in somewhere:
\* one cell more, every cell there was before unchanged.
C19_AddKeepsExistingCells ==
    lastOp.op = "add" =>
        /\ lastOp.returned = "true"
        /\ compoundDepth = 0
        /\ Len(cells) = Len(lastOp.before) + 1
        /\ \E k \in 0..Len(lastOp.before) :
              cells = CellsInsert(lastOp.before, k, lastOp.made)

\* C20, as claimed: a waitForLaunch(path) call calls closeAll at most once,
\* for the first routed event with its path that its handler receives; it
\* resolves only after that; no routed event after it has resolved, and none
\* with another path, leads to a closeAll.
C20_CloseAllAtMostOnce ==
    /\ launch.closeAlls <= 1
    /\ launch.closeAllsAfterResolve = 0
    /\ launch.closeAlls <=
          Cardinality({k \in 1..Len(routedLog) : routedLog[k] = launch.path})
    /\ launch.resolved => launch.closeAlls >= 1
    /\ launch.closeAlls >= 1 =>
          /\ routedLog[launch.firstCloseAt] = launch.path
          /\ launch.pc = "connected"

=============================================================================
